---- MODULE Spec2Model ----
(***************************************************************************)
(* Model of the two precipitation pipelines of the repository:             *)
(*   sync.py  - sequential carry-forward pipeline,                          *)
(*   asynk.py - concurrent caching stage followed by a sequential           *)
(*              processing stage.                                           *)
(* Byte strings are sequences of one-character strings.                     *)
(***************************************************************************)
EXTENDS Integers, Sequences, FiniteSets, TLC

VARIABLES
    prog,        \* "sync" | "asynk" | "discover" | "delta": what is being run
    cells,       \* the values a cell of a grid on the server may have
    pc,          \* position of main()
    index,       \* the index document the server publishes at BASE_URL
    filenames,   \* main's list (deque in sync.py) of discovered entry names
    fr,          \* locals of the running get_content / get_content_async calls
    cache,       \* files of CACHE_DIR: path -> file content or Absent
    outputs,     \* files <MODEL>/<time>/PRATE.wgf4: time -> file or Absent
    prev_values, \* sync.py main: the carried baseline
    task,        \* asynk.py: state of each download_dataset task
    busy,        \* asynk.py: the task holding the event loop inside a step
    idx,         \* asynk.py main: loop variable i of the processing stage
    hist,        \* history: per entry name, what the run has done so far
    argA, argB,  \* inputs of the delta computation under check
    computed       \* output of the delta computation under check

vars == <<prog, cells, pc, index, filenames, fr, cache, outputs, prev_values, task,
          busy, idx, hist, argA, argB, computed>>

----------------------------------------------------------------------------
(* Bounds of the model *)

MaxEntries == 3     \* entries the index document lists
MaxVal == 1         \* largest accumulated cell value
MaxFrags == 5       \* fragments an enumerated index document is built from
MaxTenths == 12     \* largest product item * MULT, in tenths, tried in each header field
GridLen == 2        \* cells of a grid in the delta check

(* Program constants *)

MaxAttempts == 10
EMPY_VALUE == -100500
SuffixLen == 4

\* the float NaN (a missing cell), as a number no cell arithmetic of the model reaches
NaN == 999999999

\* File contents (cache files, and what bz2.decompress yields)
Absent == [kind |-> "absent", time |-> 0, grid |-> <<>>]
NotGrib == [kind |-> "notgrib", time |-> 0, grid |-> <<>>]

\* Response bodies, and None (no content)
None == [kind |-> "none", file |-> Absent, text |-> <<>>]
Junk == [kind |-> "junk", file |-> Absent, text |-> <<>>]
Bz2Of(f) == [kind |-> "bz2", file |-> f, text |-> <<>>]
TextOf(t) == [kind |-> "text", file |-> Absent, text |-> t]

\* Grids held by main: None or the cells of a DataArray
NoValues == [kind |-> "none", cells |-> <<>>]
Values(g) == [kind |-> "values", cells |-> g]

\* Output files: the payload written so far and whether close() was reached
NoFile == [kind |-> "absent", payload |-> <<>>, complete |-> FALSE]

----------------------------------------------------------------------------
(* Byte strings *)

HREF == <<"h", "r", "e", "f", "=", "\"">>
CLOSE == <<"\"", ">">>
MARK == <<"l", "a", "t", "-", "l", "o", "n">>
NL == <<"\n">>
BZ2 == <<".", "b", "z", "2">>
Digits == <<"0", "1", "2", "3", "4", "5", "6", "7", "8", "9">>

\* s[i:] of Python, 0-based i
Drop(s, n) == SubSeq(s, n + 1, Len(s))

\* bytes.find: 1-based position of the first occurrence of p in s, 0 if none
FindIn(s, p) ==
    LET hits == {k \in 1..(Len(s) - Len(p) + 1) : SubSeq(s, k, k + Len(p) - 1) = p}
    IN IF hits = {} THEN 0 ELSE CHOOSE k \in hits : \A j \in hits : k <= j

\* (the string is evaluated once, then searched)
Find(s, p) == CHOOSE r \in {FindIn(v, p) : v \in {s}} : TRUE

\* p in s
Contains(s, p) == Find(s, p) # 0

\* bytes.split(sep): the pieces between the non-overlapping occurrences of
\* sep, scanned left to right
RECURSIVE Split(_, _)
SplitAt(s, sep, k) ==
    IF k = 0 THEN <<s>>
    ELSE <<SubSeq(s, 1, k - 1)>> \o Split(Drop(s, k - 1 + Len(sep)), sep)

Split(s, sep) ==
    CHOOSE r \in {SplitAt(v, sep, FindIn(v, sep)) : v \in {s}} : TRUE

\* the loop body of get_queue_of_sorces for one line
ScanLine(res, line) ==
    LET items == Split(Split(line, CLOSE)[1], HREF)
    IN IF Len(items) # 2 THEN res
       ELSE IF Contains(items[2], MARK) THEN Append(res, items[2])
       ELSE res

RECURSIVE ScanLines(_, _)
ScanLines(res, lines) ==
    IF lines = <<>> THEN res
    ELSE ScanLines(ScanLine(res, Head(lines)), Tail(lines))

\* get_queue_of_sorces applied to the fetched content (content is not None)
get_queue_of_sorces(content) == ScanLines(<<>>, Split(content, NL))

----------------------------------------------------------------------------
(* Index documents enumerated for the check of discovery *)

Frags == {HREF, CLOSE, MARK, NL, <<"x">>}

RECURSIVE DocsOf(_)
DocsOf(n) ==
    IF n = 0 THEN {<<>>}
    ELSE LET shorter == DocsOf(n - 1)
         IN shorter \cup {d \o f : d \in shorter, f \in Frags}

Docs == DocsOf(MaxFrags)

InitDiscover ==
    /\ prog = "discover"
    /\ cells = {}
    /\ pc = "parse"
    /\ index \in Docs
    /\ filenames = <<>>
    /\ fr = <<>>
    /\ cache = <<>>
    /\ outputs = <<>>
    /\ prev_values = NoValues
    /\ task = <<>>
    /\ busy = 0
    /\ idx = 0
    /\ hist = <<>>
    /\ argA = <<>>
    /\ argB = <<>>
    /\ computed = <<>>

\* get_queue_of_sorces on an index document that the fetch returned
Discover ==
    /\ prog = "discover"
    /\ pc = "parse"
    /\ filenames' = get_queue_of_sorces(index)
    /\ pc' = "parsed"
    /\ UNCHANGED <<prog, cells, index, fr, cache, outputs, prev_values, task, busy,
                   idx, hist, argA, argB, computed>>

SpecDiscover == InitDiscover /\ [][Discover]_vars

\* The hrefs of one line as the claim reads them: each text between an
\* 'href="' and the '">' that follows it on the line (an href that no '">'
\* follows runs to the end of the line).
RECURSIVE HrefsOfLine(_)
HrefsOfLine(line) ==
    LET k == Find(line, HREF)
        rest == Drop(line, k - 1 + Len(HREF))
        j == Find(rest, CLOSE)
    IN IF k = 0 THEN <<>>
       ELSE IF j = 0 THEN <<rest>>
       ELSE <<SubSeq(rest, 1, j - 1)>> \o HrefsOfLine(Drop(rest, j - 1 + Len(CLOSE)))

HasMark(h) == Contains(h, MARK)

RECURSIVE MarkedHrefs(_)
MarkedHrefs(lines) ==
    IF lines = <<>> THEN <<>>
    ELSE SelectSeq(HrefsOfLine(Head(lines)), HasMark) \o MarkedHrefs(Tail(lines))

\* C8: for every index document, discovery returns exactly the hrefs that
\* contain the marker 'lat-lon', each the text between 'href="' and the
\* following '">' on its line, in document order.
C8_DiscoverReturnsExactlyMarkedHrefs ==
    (prog = "discover" /\ pc = "parsed") =>
        filenames = MarkedHrefs(Split(index, NL))

----------------------------------------------------------------------------
(* The server, the cache directory and the grids *)

CACHE_DIR == <<".", "c", "a", "c", "h", "e">>

Entries == 1..MaxEntries
Callers == 0..MaxEntries        \* 0: main's get_content; t: task t's get_content_async

Name(k) == MARK \o <<Digits[k + 1]>> \o BZ2
\* a name that differs from Name(k) in its last four characters only
AltName(k) == MARK \o <<Digits[k + 1]>> \o <<".", "g", "z", "2">>

IndexLine(href) == <<"<", "a", " ">> \o HREF \o href \o CLOSE \o NL

RECURSIVE IndexLines(_)
IndexLines(n) == IF n = 0 THEN <<>> ELSE IndexLines(n - 1) \o IndexLine(Name(n))

\* a directory listing: the parent link, then one anchor per line
IndexDoc(n) == IndexLine(<<".", ".", "/">>) \o IndexLines(n)

\* "{}/{}".format(CACHE_DIR, bz2filename[:-4])
get_filename(bz2filename) ==
    CACHE_DIR \o <<"/">> \o SubSeq(bz2filename, 1, Len(bz2filename) - SuffixLen)

Paths == {get_filename(Name(k)) : k \in Entries}

\* the entry whose cache path an href maps to
EntryNo(name) == CHOOSE k \in Entries : get_filename(Name(k)) = get_filename(name)

Cells == {NaN} \cup 0..MaxVal

\* what the server may hold for entry k: a GRIB file of one accumulated
\* field valid at time k, or something cfgrib cannot decode
ServerFiles(k) ==
    {[kind |-> "grib", time |-> k, grid |-> <<v>>] : v \in cells} \cup {NotGrib}

\* bodies of a status-200 response for entry k
ServerBodies(k) == {Bz2Of(f) : f \in ServerFiles(k)} \cup {Junk}

\* bz2.decompress(content) returns (content is bz2 data) or raises
DecompressOk(content) == content.kind = "bz2"

\* xr.load_dataset(filename, engine="cfgrib") returns or raises
LoadOk(file) == file.kind = "grib"

\* not Path(filename).exists()  (NeedsFetchAlways: the test left out)
NeedsFetchAlways(files, path) == TRUE
NeedsFetch(files, path) == files[path] = Absent

\* the cache directory after bz2.decompress(content) raised: line 63 comes
\* before open(filename, "wb"), so no file was created
\* (failed_store_empty_file: the file opened before the decompression)
failed_store_empty_file(files, path) == [files EXCEPT ![path] = NotGrib]
failed_store(files, path) == files

\* history counters tell none, one and more than one apart
Bump(n) == IF n < 2 THEN n + 1 ELSE n

----------------------------------------------------------------------------
(* Grid arithmetic: NaN propagates through subtraction *)

\* a - b on one cell (b - a is the operands swapped)
CellSubSwapped(a, b) == IF a = NaN \/ b = NaN THEN NaN ELSE b - a
CellSub(a, b) == IF a = NaN \/ b = NaN THEN NaN ELSE a - b

GridSub(a, b) == [k \in DOMAIN a |-> CellSub(a[k], b[k])]

fillna(g, v) == [k \in DOMAIN g |-> IF g[k] = NaN THEN v ELSE g[k]]

\* get_values of sync.py.  result and dataset name one array: result -= ...
\* subtracts in place, so the dataset handed back is the array after the
\* subtraction; fillna builds a new array.
get_values(dataset, prev) ==
    LET result == IF prev = NoValues THEN dataset ELSE GridSub(dataset, prev.cells)
        dataset_after == result
    IN <<fillna(result, EMPY_VALUE), dataset_after>>

\* (dataset - prev_dataset).fillna(EMPY_VALUE) of asynk.py process
process_delta(dataset, prev_dataset) == fillna(GridSub(dataset, prev_dataset), EMPY_VALUE)

----------------------------------------------------------------------------
(* get_content / get_content_async: the retry loop *)

\* state, attempts and content are the call's position and locals; oks, okAt
\* and first are history: the passes that set content, the number of the
\* first of them and the body it received
Idle == [state |-> "idle", attempts |-> 0, content |-> None,
         oks |-> 0, okAt |-> 0, first |-> None]

\* content = None; attempts = 0
Started == [Idle EXCEPT !.state = "run"]

\* while content is None and attempts < 10
LoopCondNoContentTest(f) == f.attempts < MaxAttempts
LoopCond(f) == f.content = None /\ f.attempts < MaxAttempts

\* attempts += 1
BeginAttempt(f) == [f EXCEPT !.attempts = @ + 1]

\* content = responce.content
Succeed(f, body) ==
    [f EXCEPT !.content = body, !.oks = Bump(@),
              !.okAt = IF f.oks = 0 THEN f.attempts ELSE @,
              !.first = IF f.oks = 0 THEN body ELSE @]

Returned(f) == [f EXCEPT !.state = "returned"]

FetchPcs == {"disc_fetch", "base_fetch", "try_fetch"}

\* the bodies a status-200 response to main's current request may carry
BodiesNow ==
    IF pc = "disc_fetch" THEN {TextOf(index)}
    ELSE ServerBodies(EntryNo(Head(filenames)))

deltaVars == <<argA, argB, computed>>

ZeroHist ==
    [pre |-> {},                             \* entries cached before the run
     net |-> [k \in Entries |-> FALSE],      \* a fetch of the entry was started
     hits |-> [k \in Entries |-> FALSE],     \* a call found the entry cached
     okFetch |-> [k \in Entries |-> 0],      \* fetches made by calls that cached the entry
     noIndex |-> FALSE]                      \* the fetch of the index returned no content

\* a run against a server whose grids take their cell values from cs
InitRun(cs) ==
    /\ prog \in {"sync", "asynk"}
    /\ cells = cs
    /\ pc = "start"
    /\ \E n \in 0..MaxEntries :
        /\ index = IndexDoc(n)
        /\ \E pre \in SUBSET (1..n) :
            /\ hist = [ZeroHist EXCEPT !.pre = pre]
            /\ \E files \in [pre -> UNION {ServerFiles(k) : k \in Entries}] :
                /\ \A k \in pre : files[k] \in ServerFiles(k)
                /\ cache = [p \in Paths |->
                              IF \E k \in pre : get_filename(Name(k)) = p
                              THEN files[CHOOSE k \in pre : get_filename(Name(k)) = p]
                              ELSE Absent]
    /\ filenames = <<>>
    /\ fr = [c \in Callers |-> Idle]
    /\ outputs = [d \in Entries |-> NoFile]
    /\ prev_values = NoValues
    /\ task = <<>>
    /\ busy = 0
    /\ idx = 0
    /\ argA = <<>>
    /\ argB = <<>>
    /\ computed = <<>>

\* grids with missing cells and cells of every value up to MaxVal
InitPipeline == InitRun(Cells)

\* grids without a missing cell whose cells are all 0: the runs in which
\* only the control flow varies
InitControl == InitRun({0})

\* the listing of a sequence of hrefs
RECURSIVE IndexOf(_)
IndexOf(hrefs) ==
    IF hrefs = <<>> THEN <<>> ELSE IndexLine(Head(hrefs)) \o IndexOf(Tail(hrefs))

\* listings in which an href may occur more than once and two hrefs may
\* differ in the last four characters only
RepeatingCatalogs ==
    UNION {[1..n -> {Name(1), AltName(1), Name(2)}] : n \in 2..MaxEntries}

\* a run over such a listing, the cache directory empty
InitRepeats ==
    /\ prog \in {"sync", "asynk"}
    /\ cells = {0}
    /\ pc = "start"
    /\ \E hrefs \in RepeatingCatalogs : index = IndexOf(hrefs)
    /\ hist = ZeroHist
    /\ cache = [p \in Paths |-> Absent]
    /\ filenames = <<>>
    /\ fr = [c \in Callers |-> Idle]
    /\ outputs = [d \in Entries |-> NoFile]
    /\ prev_values = NoValues
    /\ task = <<>>
    /\ busy = 0
    /\ idx = 0
    /\ argA = <<>>
    /\ argB = <<>>
    /\ computed = <<>>

\* main, up to the call of get_content(BASE_URL) in get_queue_of_sorces
main_start ==
    /\ pc = "start"
    /\ pc' = "disc_fetch"
    /\ fr' = [fr EXCEPT ![0] = Started]
    /\ UNCHANGED <<prog, cells, index, filenames, cache, outputs, prev_values, task,
                   busy, idx, hist, argA, argB, computed>>

\* one pass of get_content's loop in which requests.get raises or the
\* status is not 200 (print, sleep(2))
get_content_fail ==
    /\ pc \in FetchPcs
    /\ fr[0].state = "run"
    /\ LoopCond(fr[0])
    /\ fr' = [fr EXCEPT ![0] = BeginAttempt(@)]
    /\ UNCHANGED <<prog, cells, pc, index, filenames, cache, outputs, prev_values,
                   task, busy, idx, hist, argA, argB, computed>>

\* one pass of get_content's loop with a status-200 response
get_content_ok ==
    /\ pc \in FetchPcs
    /\ fr[0].state = "run"
    /\ LoopCond(fr[0])
    /\ \E body \in BodiesNow :
        fr' = [fr EXCEPT ![0] = Succeed(BeginAttempt(@), body)]
    /\ UNCHANGED <<prog, cells, pc, index, filenames, cache, outputs, prev_values,
                   task, busy, idx, hist, argA, argB, computed>>

\* get_content leaves its loop and returns content
get_content_return ==
    /\ pc \in FetchPcs
    /\ fr[0].state = "run"
    /\ ~LoopCond(fr[0])
    /\ fr' = [fr EXCEPT ![0] = Returned(@)]
    /\ UNCHANGED <<prog, cells, pc, index, filenames, cache, outputs, prev_values,
                   task, busy, idx, hist, argA, argB, computed>>

\* content.split(b"\n") raises AttributeError when content is None
\* (IndexMissingNever: None taken for an empty document)
IndexMissingNever(content) == FALSE
IndexMissing(content) == content = None

\* get_queue_of_sorces after get_content returned: content.split raises on
\* None (main ends with the exception), otherwise the lines are scanned
discovered ==
    /\ pc = "disc_fetch"
    /\ fr[0].state = "returned"
    /\ hist' = [hist EXCEPT !.noIndex = (fr[0].content = None)]
    /\ IF IndexMissing(fr[0].content)
       THEN /\ pc' = "aborted"
            /\ UNCHANGED filenames
       ELSE /\ filenames' = get_queue_of_sorces(fr[0].content.text)
            /\ pc' = IF prog = "sync" THEN "baseline" ELSE "download"
    /\ fr' = [fr EXCEPT ![0] = Idle]
    /\ UNCHANGED <<prog, cells, index, cache, outputs, prev_values, task, busy,
                   idx, argA, argB, computed>>

----------------------------------------------------------------------------
(* sync.py *)

HeadPath == get_filename(Head(filenames))
HeadNo == EntryNo(Head(filenames))

\* what the file system does to a processing step: mkdir raises, open
\* raises, a write raises after the header went out, or all succeed
FsOutcomes == {"mkdir_fail", "open_fail", "partial", "ok"}

Partial == [kind |-> "wgf4", payload |-> <<>>, complete |-> FALSE]
Written(values) == [kind |-> "wgf4", payload |-> values, complete |-> TRUE]

\* main line 132, first half: filenames[0] raises on an empty deque;
\* get_dataset looks for the cache file and either calls get_content or
\* goes on to load
sync_baseline ==
    /\ prog = "sync"
    /\ pc = "baseline"
    /\ IF filenames = <<>>
       THEN /\ pc' = "aborted"
            /\ UNCHANGED <<fr, hist>>
       ELSE IF NeedsFetch(cache, HeadPath)
       THEN /\ pc' = "base_fetch"
            /\ fr' = [fr EXCEPT ![0] = Started]
            /\ hist' = [hist EXCEPT !.net[HeadNo] = TRUE]
       ELSE /\ pc' = "base_load"
            /\ hist' = [hist EXCEPT !.hits[HeadNo] = TRUE]
            /\ UNCHANGED fr
    /\ UNCHANGED <<prog, cells, index, filenames, cache, outputs, prev_values, task,
                   busy, idx, deltaVars>>

\* get_dataset lines 63-67 for the baseline: an exception ends main
sync_base_fetched ==
    /\ prog = "sync"
    /\ pc = "base_fetch"
    /\ fr[0].state = "returned"
    /\ IF DecompressOk(fr[0].content)
       THEN /\ cache' = [cache EXCEPT ![HeadPath] = fr[0].content.file]
            /\ hist' = [hist EXCEPT !.okFetch[HeadNo] = Bump(@)]
            /\ pc' = "base_load"
       ELSE /\ pc' = "aborted"
            /\ cache' = failed_store(cache, HeadPath)
            /\ UNCHANGED hist
    /\ fr' = [fr EXCEPT ![0] = Idle]
    /\ UNCHANGED <<prog, cells, index, filenames, outputs, prev_values, task, busy,
                   idx, deltaVars>>

\* filenames.popleft()
popleft(q) == Tail(q)

\* main line 133: the baseline entry leaves the deque
after_baseline_keep(q) == q
after_baseline(q) == popleft(q)

\* get_dataset lines 70-76 and main lines 132-133: the first element of
\* get_values' pair becomes prev_values
sync_base_load ==
    /\ prog = "sync"
    /\ pc = "base_load"
    /\ IF LoadOk(cache[HeadPath])
       THEN /\ prev_values' = Values(get_values(cache[HeadPath].grid, NoValues)[1])
            /\ filenames' = after_baseline(filenames)
            /\ pc' = "loop"
       ELSE /\ pc' = "aborted"
            /\ UNCHANGED <<prev_values, filenames>>
    /\ UNCHANGED <<prog, cells, index, fr, cache, outputs, task, busy, idx, hist,
                   deltaVars>>

\* main lines 136-141: the loop test, then get_dataset up to its cache test
sync_loop ==
    /\ prog = "sync"
    /\ pc = "loop"
    /\ IF filenames = <<>>
       THEN /\ pc' = "done"
            /\ UNCHANGED <<fr, hist>>
       ELSE IF NeedsFetch(cache, HeadPath)
       THEN /\ pc' = "try_fetch"
            /\ fr' = [fr EXCEPT ![0] = Started]
            /\ hist' = [hist EXCEPT !.net[HeadNo] = TRUE]
       ELSE /\ pc' = "try_load"
            /\ hist' = [hist EXCEPT !.hits[HeadNo] = TRUE]
            /\ UNCHANGED fr
    /\ UNCHANGED <<prog, cells, index, filenames, cache, outputs, prev_values, task,
                   busy, idx, deltaVars>>

\* get_dataset lines 63-67 inside the try: an exception is printed and the
\* loop starts over with the same head
sync_try_fetched ==
    /\ prog = "sync"
    /\ pc = "try_fetch"
    /\ fr[0].state = "returned"
    /\ IF DecompressOk(fr[0].content)
       THEN /\ cache' = [cache EXCEPT ![HeadPath] = fr[0].content.file]
            /\ hist' = [hist EXCEPT !.okFetch[HeadNo] = Bump(@)]
            /\ pc' = "try_load"
       ELSE /\ pc' = "loop"
            /\ cache' = failed_store(cache, HeadPath)
            /\ UNCHANGED hist
    /\ fr' = [fr EXCEPT ![0] = Idle]
    /\ UNCHANGED <<prog, cells, index, filenames, outputs, prev_values, task, busy,
                   idx, deltaVars>>

\* main lines 141-150 from load_dataset on: load, header, mkdir, get_values,
\* write_data, popleft; whatever raises is printed and the loop starts over
sync_try_body ==
    /\ prog = "sync"
    /\ pc = "try_load"
    /\ pc' = "loop"
    /\ LET file == cache[HeadPath]
           gv == get_values(file.grid, prev_values)
       IN IF ~LoadOk(file)
          THEN UNCHANGED <<filenames, outputs, prev_values, hist>>
          ELSE \E fs \in FsOutcomes :
               IF fs = "mkdir_fail"
               THEN UNCHANGED <<filenames, outputs, prev_values, hist>>
               ELSE /\ prev_values' = Values(gv[2])
                    /\ IF fs = "open_fail"
                       THEN UNCHANGED <<filenames, outputs, hist>>
                       ELSE /\ UNCHANGED hist
                            /\ IF fs = "partial"
                               THEN /\ outputs' = [outputs EXCEPT ![file.time] = Partial]
                                    /\ UNCHANGED filenames
                               ELSE /\ outputs' = [outputs EXCEPT ![file.time] = Written(gv[1])]
                                    /\ filenames' = popleft(filenames)
    /\ UNCHANGED <<prog, cells, index, fr, cache, task, busy, idx, deltaVars>>


----------------------------------------------------------------------------
(* asynk.py: the caching stage.  The event loop runs one task at a time; a
   task gives the loop up only at an await on the network (the request, the
   read of the body).  time.sleep does not give it up. *)

TaskNo(t) == EntryNo(filenames[t])
TaskPath(t) == get_filename(filenames[t])

Pending == {"wait", "sleep"}

\* download_datasets lines 177-178 as seen by main: the tasks are awaited in
\* list order; an awaited task that raised ends download_datasets with its
\* exception; all awaits returning ends the stage
StageResultFirstOnly(tk) ==
    IF tk = <<>> \/ tk[1] = "done" THEN "ok"
    ELSE IF tk[1] = "failed" THEN "abort" ELSE "wait"
StageResultIgnoreFailure(tk) ==
    IF \A t \in DOMAIN tk : tk[t] \in {"done", "failed"} THEN "ok" ELSE "wait"
StageResult(tk) ==
    IF \A t \in DOMAIN tk : tk[t] = "done" THEN "ok"
    ELSE IF \E t \in DOMAIN tk :
              tk[t] = "failed" /\ \A j \in 1..(t - 1) : tk[j] = "done"
    THEN "abort"
    ELSE "wait"

\* main after a step of the caching stage: asyncio.run returns (line 188),
\* or raises after cancelling the tasks still pending, or keeps waiting
Settle(tk, frames) ==
    LET r == StageResult(tk)
    IN /\ task' = IF r = "abort"
                  THEN [t \in DOMAIN tk |-> IF tk[t] \in Pending THEN "cancelled" ELSE tk[t]]
                  ELSE tk
       /\ fr' = IF r = "abort"
                THEN [c \in Callers |->
                        IF c \in DOMAIN tk /\ tk[c] \in Pending THEN Idle ELSE frames[c]]
                ELSE frames
       /\ pc' = IF r = "ok" THEN "process" ELSE IF r = "abort" THEN "aborted" ELSE "caching"
       /\ idx' = IF r = "ok" THEN 1 ELSE idx

\* download_datasets lines 172-178 up to main's first await, and each
\* task's run up to its first await: download_dataset tests the cache file
\* and either returns or enters get_content_async and sends request 1
download_datasets ==
    /\ prog = "asynk"
    /\ pc = "download"
    /\ LET fetches(t) == NeedsFetch(cache, TaskPath(t))
           tk == [t \in 1..Len(filenames) |-> IF fetches(t) THEN "wait" ELSE "done"]
       IN /\ hist' = [hist EXCEPT
                        !.net = [k \in Entries |->
                                   @[k] \/ \E t \in DOMAIN tk : TaskNo(t) = k /\ fetches(t)],
                        !.hits = [k \in Entries |->
                                   @[k] \/ \E t \in DOMAIN tk : TaskNo(t) = k /\ ~fetches(t)]]
          /\ Settle(tk, [c \in Callers |->
                           IF c \in DOMAIN tk /\ fetches(c) THEN BeginAttempt(Started)
                           ELSE fr[c]])
    /\ busy' = 0
    /\ UNCHANGED <<prog, cells, index, filenames, cache, outputs, prev_values, deltaVars>>

\* A pass of get_content_async's loop (lines 70-79) awaits the network twice,
\* for the response and for its body, and does nothing else in between: the
\* two awaits are one wait here.  In this step the pass fails (the request
\* raises, the status is not 200 or the read raises): the task prints and
\* calls time.sleep(2) while holding the event loop.
async_attempt_fail(t) ==
    /\ prog = "asynk" /\ pc = "caching" /\ busy = 0
    /\ t \in DOMAIN task /\ task[t] = "wait"
    /\ task' = [task EXCEPT ![t] = "sleep"]
    /\ busy' = t
    /\ UNCHANGED <<prog, cells, pc, index, filenames, fr, cache, outputs, prev_values,
                   idx, hist, deltaVars>>

\* download_dataset lines 92-96 once get_content_async has returned content:
\* an exception of bz2.decompress ends the task with that exception
download_dataset_store(t, content) ==
    /\ IF DecompressOk(content)
       THEN /\ cache' = [cache EXCEPT ![TaskPath(t)] = content.file]
            /\ hist' = [hist EXCEPT !.okFetch[TaskNo(t)] = Bump(@)]
            /\ Settle([task EXCEPT ![t] = "done"], [fr EXCEPT ![t] = Idle])
       ELSE /\ Settle([task EXCEPT ![t] = "failed"], [fr EXCEPT ![t] = Idle])
            /\ cache' = failed_store(cache, TaskPath(t))
            /\ UNCHANGED hist
    /\ busy' = 0

\* the loop test of line 69 after a pass, and what follows it without an
\* await: the next request (attempts += 1), or the return of content to
\* download_dataset, which runs to its end
AfterPass(t, f) ==
    IF LoopCond(f)
    THEN /\ fr' = [fr EXCEPT ![t] = BeginAttempt(f)]
         /\ task' = [task EXCEPT ![t] = "wait"]
         /\ busy' = 0
         /\ UNCHANGED <<pc, idx, cache, hist>>
    ELSE download_dataset_store(t, f.content)

\* the pass succeeds: status 200 and content = await response.read()
async_attempt_ok(t) ==
    /\ prog = "asynk" /\ pc = "caching" /\ busy = 0
    /\ t \in DOMAIN task /\ task[t] = "wait"
    /\ \E body \in ServerBodies(TaskNo(t)) : AfterPass(t, Succeed(fr[t], body))
    /\ UNCHANGED <<prog, cells, index, filenames, outputs, prev_values, deltaVars>>

\* time.sleep(2) returns
async_wake(t) ==
    /\ prog = "asynk" /\ pc = "caching" /\ busy = t
    /\ t \in DOMAIN task /\ task[t] = "sleep"
    /\ AfterPass(t, fr[t])
    /\ UNCHANGED <<prog, cells, index, filenames, outputs, prev_values, deltaVars>>

----------------
(* asynk.py: the processing stage; nothing catches what process raises *)

\* range(1, len(filenames)) is exhausted
process_finished ==
    /\ prog = "asynk"
    /\ pc = "process"
    /\ idx >= Len(filenames)
    /\ pc' = "done"
    /\ UNCHANGED <<prog, cells, index, filenames, fr, cache, outputs, prev_values,
                   task, busy, idx, hist, deltaVars>>

\* filenames[index-1] for the entry at list position i (from 1)
\* (prev_position_same: filenames[index] taken twice)
prev_position_same(i) == i
prev_position(i) == i - 1

\* process(filenames, i): Python's filenames[i-1] and filenames[i] are
\* filenames[idx] and filenames[idx + 1] here
process ==
    /\ prog = "asynk"
    /\ pc = "process"
    /\ idx < Len(filenames)
    /\ LET prev_dataset == cache[get_filename(filenames[prev_position(idx + 1)])]
           dataset == cache[get_filename(filenames[idx + 1])]
       IN IF ~LoadOk(prev_dataset) \/ ~LoadOk(dataset)
          THEN /\ pc' = "aborted"
               /\ UNCHANGED <<outputs, idx>>
          ELSE \E fs \in FsOutcomes :
               IF fs \in {"mkdir_fail", "open_fail"}
               THEN /\ pc' = "aborted"
                    /\ UNCHANGED <<outputs, idx>>
               ELSE IF fs = "partial"
               THEN /\ pc' = "aborted"
                    /\ outputs' = [outputs EXCEPT ![dataset.time] = Partial]
                    /\ UNCHANGED idx
               ELSE /\ outputs' = [outputs EXCEPT ![dataset.time] =
                                     Written(process_delta(dataset.grid, prev_dataset.grid))]
                    /\ idx' = idx + 1
                    /\ UNCHANGED pc
    /\ UNCHANGED <<prog, cells, index, filenames, fr, cache, prev_values, task, busy,
                   hist, deltaVars>>


Next ==
    \/ main_start
    \/ get_content_fail
    \/ get_content_ok
    \/ get_content_return
    \/ discovered
    \/ sync_baseline
    \/ sync_base_fetched
    \/ sync_base_load
    \/ sync_loop
    \/ sync_try_fetched
    \/ sync_try_body
    \/ download_datasets
    \/ \E t \in Entries : async_attempt_fail(t)
    \/ \E t \in Entries : async_attempt_ok(t)
    \/ \E t \in Entries : async_wake(t)
    \/ process
    \/ process_finished

\* a run of sync.py or of asynk.py against a server and a cache directory
Spec == InitPipeline /\ [][Next]_vars

\* the same runs over grids of one value
SpecControl == InitControl /\ [][Next]_vars

\* runs over listings with repeated hrefs
SpecRepeats == InitRepeats /\ [][Next]_vars

\* the interpreter keeps executing the program: main is never suspended
\* for ever while it has a step to take
FairSpec == SpecControl /\ WF_vars(Next)

----------------------------------------------------------------------------
(* The delta computation on its own *)

Grids == [1..GridLen -> Cells]

InitDelta ==
    /\ prog = "delta"
    /\ cells = Cells
    /\ pc = "args"
    /\ argA \in Grids
    /\ argB \in Grids
    /\ computed = <<>>
    /\ prev_values = NoValues
    /\ index = <<>>
    /\ filenames = <<>>
    /\ fr = <<>>
    /\ cache = <<>>
    /\ outputs = <<>>
    /\ task = <<>>
    /\ busy = 0
    /\ idx = 0
    /\ hist = <<>>

\* result, prev_values = get_values(dataset, prev_values) with the earlier
\* grid argA as prev_values and the later grid argB as dataset
delta_sync ==
    /\ prog = "delta"
    /\ pc = "args"
    /\ computed' = get_values(argB, Values(argA))[1]
    /\ prev_values' = Values(get_values(argB, Values(argA))[2])
    /\ pc' = "sync_delta"
    /\ UNCHANGED <<prog, cells, index, filenames, fr, cache, outputs, task, busy, idx,
                   hist, argA, argB>>

\* get_values(dataset) with no prev_values, as for the first entry
delta_first ==
    /\ prog = "delta"
    /\ pc = "args"
    /\ computed' = get_values(argB, NoValues)[1]
    /\ prev_values' = Values(get_values(argB, NoValues)[2])
    /\ pc' = "sync_first"
    /\ UNCHANGED <<prog, cells, index, filenames, fr, cache, outputs, task, busy, idx,
                   hist, argA, argB>>

\* (dataset - prev_dataset).fillna(EMPY_VALUE) with argA earlier, argB later
delta_asynk ==
    /\ prog = "delta"
    /\ pc = "args"
    /\ computed' = process_delta(argB, argA)
    /\ pc' = "asynk_delta"
    /\ UNCHANGED <<prog, cells, index, filenames, fr, cache, outputs, prev_values,
                   task, busy, idx, hist, argA, argB>>

NextDelta == delta_sync \/ delta_first \/ delta_asynk

SpecDelta == InitDelta /\ [][NextDelta]_vars

----------------------------------------------------------------------------
(* get_header and write_data on their own.  struct.pack without a byte-order
   prefix packs in native order: little-endian here. *)

\* int(x) of a float x given in tenths: the fraction is cut off, towards zero
IntOf(tenths) == IF tenths >= 0 THEN tenths \div 10 ELSE -((-tenths) \div 10)

\* normalize_tuple: [int(item * MULT) for item in args], the products
\* item * MULT given in tenths
RECURSIVE normalize_tuple(_)
normalize_tuple(products) ==
    IF products = <<>> THEN <<>>
    ELSE <<IntOf(Head(products))>> \o normalize_tuple(Tail(products))

\* get_header before struct.pack: the six normalized attributes, then 1
get_header(products) == normalize_tuple(products) \o <<1>>

\* struct.pack('i', n): the four bytes of n in two's complement
pack_i(n) ==
    LET low == n % 16777216
    IN <<low % 256, (low \div 256) % 256, low \div 65536, (n \div 16777216) % 256>>

RECURSIVE Log2(_)
Log2(a) == IF a < 2 THEN 0 ELSE 1 + Log2(a \div 2)

RECURSIVE Pow2(_)
Pow2(e) == IF e = 0 THEN 1 ELSE 2 * Pow2(e - 1)

\* struct.pack('f', v) for an integral v of magnitude below 2^24: sign,
\* biased exponent and 23-bit fraction of the IEEE 754 single
pack_f(v) ==
    IF v = 0 THEN <<0, 0, 0, 0>>
    ELSE LET a == IF v < 0 THEN -v ELSE v
             e == Log2(a)
             frac == (a - Pow2(e)) * Pow2(23 - e)
             expo == e + 127
         IN <<frac % 256, (frac \div 256) % 256,
              (frac \div 65536) + 128 * (expo % 2),
              (IF v < 0 THEN 128 ELSE 0) + (expo \div 2)>>

\* struct.pack('i' * 7, ...): fields of one size, so no padding between them
RECURSIVE pack_header(_)
pack_header(ints) ==
    IF ints = <<>> THEN <<>> ELSE pack_i(Head(ints)) \o pack_header(Tail(ints))

\* struct.pack('f' * len(line), *line.as_numpy())
RECURSIVE pack_line(_)
pack_line(line) ==
    IF line = <<>> THEN <<>> ELSE pack_f(Head(line)) \o pack_line(Tail(line))

\* (value = ... in place of value += ...: only the last line is kept)
ValueOfLastLine(value, values) ==
    IF values = <<>> THEN value ELSE value \o pack_line(values[Len(values)])

\* asynk.py write_data lines 144-146: the buffer built before the file is opened
RECURSIVE value_of(_, _)
value_of(value, values) ==
    IF values = <<>> THEN value
    ELSE value_of(value \o pack_line(Head(values)), Tail(values))

\* the values a written cell takes here: the sentinel, 0 and the largest value
WCells == {EMPY_VALUE, 0, MaxVal}

\* grids of up to GridLen rows and up to GridLen columns
WGrids == UNION {[1..r -> [1..c -> WCells]] : r \in 1..GridLen, c \in 1..GridLen}

\* the six products item * MULT, in tenths, of a grid from 47.5N 5E to
\* 55.5N 17E in steps of 0.02 degrees
ExampleProducts == <<475000000, 555000000, 50000000, 170000000, 200000, 200000>>

\* a grid west of Greenwich and south of the equator
WestSouthProducts == <<-475000000, -5, -1790000000, 170000000, 200000, 200000>>

NoBytes == [kind |-> "absent", bytes |-> <<>>, complete |-> FALSE]

InitWrite ==
    /\ prog = "write"
    /\ cells = WCells
    /\ pc = "args"
    /\ argA \in WGrids
    /\ argB \in {ExampleProducts, WestSouthProducts}
    /\ computed = <<>>
    /\ outputs = [s \in {"sync", "asynk"} |-> NoBytes]
    /\ prev_values = NoValues
    /\ index = <<>>
    /\ filenames = <<>>
    /\ fr = <<>>
    /\ cache = <<>>
    /\ task = <<>>
    /\ busy = 0
    /\ idx = 0
    /\ hist = <<>>

writeFrame == <<prog, cells, index, filenames, fr, cache, prev_values, task,
                busy, hist, argA, argB>>

\* header = get_header(dataset)
write_get_header ==
    /\ prog = "write" /\ pc = "args"
    /\ computed' = pack_header(get_header(argB))
    /\ pc' = "sync_open"
    /\ UNCHANGED <<outputs, idx>>
    /\ UNCHANGED writeFrame

\* sync.py write_data line 116: open(..., "wb")
write_sync_open ==
    /\ prog = "write" /\ pc = "sync_open"
    /\ outputs' = [outputs EXCEPT !["sync"] = [kind |-> "wgf4", bytes |-> <<>>, complete |-> FALSE]]
    /\ pc' = "sync_header"
    /\ UNCHANGED <<computed, idx>>
    /\ UNCHANGED writeFrame

\* line 117: output.write(header)
write_sync_header ==
    /\ prog = "write" /\ pc = "sync_header"
    /\ outputs' = [outputs EXCEPT !["sync"].bytes = @ \o computed]
    /\ pc' = "sync_sentinel"
    /\ UNCHANGED <<computed, idx>>
    /\ UNCHANGED writeFrame

\* line 118: output.write(struct.pack('f', EMPY_VALUE))
write_sync_sentinel ==
    /\ prog = "write" /\ pc = "sync_sentinel"
    /\ outputs' = [outputs EXCEPT !["sync"].bytes = @ \o pack_f(EMPY_VALUE)]
    /\ pc' = "sync_lines"
    /\ idx' = 1
    /\ UNCHANGED computed
    /\ UNCHANGED writeFrame

\* lines 119-120: one pass of 'for line in values'
write_sync_line ==
    /\ prog = "write" /\ pc = "sync_lines"
    /\ idx <= Len(argA)
    /\ outputs' = [outputs EXCEPT !["sync"].bytes = @ \o pack_line(argA[idx])]
    /\ idx' = idx + 1
    /\ UNCHANGED <<pc, computed>>
    /\ UNCHANGED writeFrame

\* line 121: output.close()
write_sync_close ==
    /\ prog = "write" /\ pc = "sync_lines"
    /\ idx > Len(argA)
    /\ outputs' = [outputs EXCEPT !["sync"].complete = TRUE]
    /\ pc' = "asynk_write"
    /\ UNCHANGED <<computed, idx>>
    /\ UNCHANGED writeFrame

\* asynk.py write_data lines 144-150
write_asynk ==
    /\ prog = "write" /\ pc = "asynk_write"
    /\ outputs' = [outputs EXCEPT !["asynk"] =
                      [kind |-> "wgf4",
                       bytes |-> value_of(computed \o pack_f(EMPY_VALUE), argA),
                       complete |-> TRUE]]
    /\ pc' = "written"
    /\ UNCHANGED <<computed, idx>>
    /\ UNCHANGED writeFrame

\* the header attributes tried: the example grid, and the example grid with
\* one product replaced by a small one
HeaderInputs ==
    {ExampleProducts} \cup
    {[ExampleProducts EXCEPT ![i] = p] : i \in 1..6, p \in (-MaxTenths)..MaxTenths}

InitHeader ==
    /\ prog = "header"
    /\ cells = {}
    /\ pc = "args"
    /\ argA = <<>>
    /\ argB \in HeaderInputs
    /\ computed = <<>>
    /\ outputs = <<>>
    /\ prev_values = NoValues
    /\ index = <<>>
    /\ filenames = <<>>
    /\ fr = <<>>
    /\ cache = <<>>
    /\ task = <<>>
    /\ busy = 0
    /\ idx = 0
    /\ hist = <<>>

\* get_header up to the arguments of struct.pack
header_normalize ==
    /\ prog = "header" /\ pc = "args"
    /\ computed' = get_header(argB)
    /\ pc' = "normalized"
    /\ UNCHANGED <<outputs, idx>>
    /\ UNCHANGED writeFrame

SpecHeader == InitHeader /\ [][header_normalize]_vars

NextWrite ==
    \/ write_get_header
    \/ write_sync_open
    \/ write_sync_header
    \/ write_sync_sentinel
    \/ write_sync_line
    \/ write_sync_close
    \/ write_asynk

SpecWrite == InitWrite /\ [][NextWrite]_vars

----------------------------------------------------------------------------
(* Properties *)

\* the catalog: what discovery returns for the published index
Discovered == get_queue_of_sorces(index)

CachedFile(name) == cache[get_filename(name)]

\* sync.py: main is in its loop or past it, so filenames holds the entries
\* not yet processed
InSyncLoop == prog = "sync" /\ pc \in {"loop", "try_fetch", "try_load", "done"}

Processed == Len(Discovered) - Len(filenames)

AdjacentDelta(i) ==
    fillna(GridSub(CachedFile(Discovered[i]).grid, CachedFile(Discovered[i - 1]).grid),
           EMPY_VALUE)

\* C1: in sync.py, the payload written for every entry after the first is
\* the accumulated grid of that entry minus the accumulated grid of the entry
\* before it, cell by cell, with the sentinel in the invalid cells.
C1_PayloadIsAdjacentDifference ==
    InSyncLoop =>
        \A i \in 2..Processed :
            outputs[EntryNo(Discovered[i])] = Written(AdjacentDelta(i))

Fetching(k) ==
    \/ /\ pc \in {"base_fetch", "try_fetch"}
       /\ fr[0].state = "run"
       /\ HeadNo = k
    \/ /\ pc = "caching"
       /\ \E t \in DOMAIN task : task[t] \in Pending /\ TaskNo(t) = k

\* C2: a call that finds the entry's cache file makes no fetch: an entry
\* cached before the run is never fetched in it, a fetch is under way only
\* while the file is absent, the calls that cached an entry made one fetch
\* between them, and a call finds the file only if the file was there before
\* the run or one fetch of the run put it there.
C2_FetchOnlyOnCacheMiss ==
    prog \in {"sync", "asynk"} =>
        \A k \in Entries :
            /\ k \in hist.pre => ~hist.net[k] /\ hist.okFetch[k] = 0
            /\ Fetching(k) => cache[get_filename(Name(k))] = Absent
            /\ hist.okFetch[k] <= 1
            /\ hist.hits[k] => (k \in hist.pre \/ hist.okFetch[k] = 1)
            /\ cache[get_filename(Name(k))] # Absent =>
                   (k \in hist.pre \/ hist.okFetch[k] = 1)

\* two successful calls for one entry in one run, the first of which
\* fetched; and an entry cached by an earlier run used by a finished run
C2_Witness ==
    /\ prog = "sync"
    /\ pc = "done"
    /\ \E k \in Entries : hist.okFetch[k] = 1 /\ hist.hits[k]
    /\ \E k \in Entries : k \in hist.pre /\ hist.hits[k]

\* C3: a call of get_content or get_content_async makes between 1 and 10
\* attempts, makes an attempt only when every earlier one failed, and returns
\* the body of its first successful attempt without a further attempt.
C3_BoundedRetryReturnsFirstBody ==
    prog \in {"sync", "asynk"} =>
        \A c \in Callers :
            LET f == fr[c]
            IN /\ f.attempts <= MaxAttempts
               /\ f.oks <= 1
               /\ f.oks = 1 => f.okAt = f.attempts /\ f.content = f.first /\ f.content # None
               /\ f.oks = 0 => f.content = None
               /\ (c \in DOMAIN task /\ task[c] \in Pending) =>
                      f.oks = 0 /\ f.attempts >= 1
               /\ f.state = "returned" =>
                      /\ f.attempts >= 1
                      /\ f.content = None => f.attempts = MaxAttempts

\* a call that returned a body after failed attempts, and a task of asynk.py
\* on its last attempt
C3_Witness ==
    \/ /\ fr[0].state = "returned"
       /\ fr[0].attempts = MaxAttempts
       /\ fr[0].content # None
       /\ pc = "try_fetch"
    \/ /\ prog = "asynk"
       /\ \E t \in DOMAIN task : task[t] = "wait" /\ fr[t].attempts = MaxAttempts

\* C4: a fetch whose 10 attempts all failed ends in an error; it never
\* returns to its caller with no content.
C4_ExhaustedFetchRaises ==
    \A c \in DOMAIN fr : fr[c].state = "returned" => fr[c].content # None

AllCached ==
    /\ Len(task) = Len(filenames)
    /\ \A t \in DOMAIN task : task[t] = "done" /\ cache[TaskPath(t)] # Absent

\* C5: in asynk.py no entry is loaded, subtracted or written before every
\* caching task of the discovered entries has completed.
C5_ProcessingAfterAllCached ==
    (prog = "asynk" /\ (pc = "process" \/ idx >= 1 \/ \E d \in Entries : outputs[d] # NoFile))
        => AllCached

\* a processing step has run over entries of which one was fetched and
\* another was found in the cache
C5_Witness ==
    /\ prog = "asynk"
    /\ idx >= 2
    /\ \E k \in Entries : hist.okFetch[k] = 1
    /\ \E k \in Entries : hist.hits[k]

\* C6: in asynk.py, once the caching of an entry has failed the processing
\* stage is never entered and no output file is written, and the run is
\* aborted as soon as no caching task is left to wait for.
C6_CachingFailureAbortsRun ==
    (prog = "asynk" /\ \E t \in DOMAIN task : task[t] = "failed") =>
        /\ pc \in {"caching", "aborted"}
        /\ idx = 0
        /\ \A d \in Entries : outputs[d] = NoFile
        /\ (\A t \in DOMAIN task : task[t] \notin Pending) => pc = "aborted"

\* the last task failed after the others had cached their entries
C6_Witness ==
    /\ prog = "asynk"
    /\ pc = "aborted"
    /\ Len(task) >= 2
    /\ task[Len(task)] = "failed"
    /\ \A t \in 1..(Len(task) - 1) : task[t] = "done" /\ hist.okFetch[TaskNo(t)] = 1

\* C7: every run ends, either with all pairs processed or aborted.
C7_RunTerminates == <>(pc \in {"done", "aborted"})

\* C9: a run that ends without an unrecovered failure over N >= 1 entries
\* leaves exactly N-1 complete output files: one in the directory of each
\* entry after the first, holding an array of that entry's shape, and none
\* for the first entry.
C9_OneOutputPerLaterEntry ==
    (prog \in {"sync", "asynk"} /\ pc = "done" /\ Len(Discovered) >= 1) =>
        LET n == Len(Discovered)
            dir(i) == EntryNo(Discovered[i])    \* the entry's valid time
        IN /\ \A i \in 2..n :
                /\ outputs[dir(i)].complete
                /\ Len(outputs[dir(i)].payload) = Len(CachedFile(Discovered[i]).grid)
           /\ outputs[dir(1)] = NoFile
           /\ Cardinality({d \in Entries : outputs[d] # NoFile}) = n - 1

\* runs of both scripts over three entries have ended with two output files
C9_Witness ==
    /\ pc = "done"
    /\ Len(Discovered) = 3
    /\ Cardinality({d \in Entries : outputs[d].complete}) = 2

\* C10: the delta of a later grid B and an earlier grid A is B - A in every
\* cell where both are valid and the sentinel in every other cell, in
\* sync.py's get_values and in asynk.py's process alike.
C10_DeltaIsLaterMinusEarlier ==
    (prog = "delta" /\ pc \in {"sync_delta", "asynk_delta"}) =>
        /\ DOMAIN computed = DOMAIN argB
        /\ \A k \in DOMAIN argB :
            computed[k] = IF argA[k] # NaN /\ argB[k] # NaN
                          THEN argB[k] - argA[k]
                          ELSE EMPY_VALUE

\* a delta with a valid non-zero cell and a cell invalid in one operand only
C10_Witness ==
    /\ prog = "delta"
    /\ pc = "sync_delta"
    /\ \E k \in DOMAIN argB : argA[k] # NaN /\ argB[k] # NaN /\ argB[k] - argA[k] < 0
    /\ \E k \in DOMAIN argB : argA[k] = NaN /\ argB[k] # NaN /\ computed[k] = EMPY_VALUE

----------------------------------------------------------------------------
(* Properties of the output file *)

\* the cells of a grid in row-major order
RECURSIVE RowMajor(_)
RowMajor(g) == IF g = <<>> THEN <<>> ELSE Head(g) \o RowMajor(Tail(g))

\* the four bytes at cell position n (from 0) of the payload of a file
CellBytes(bytes, n) == SubSeq(bytes, 33 + 4 * n, 36 + 4 * n)

\* C11: every completely written output file is the 28-byte header (seven
\* int32), the 4-byte float32 sentinel and then the cells in row-major order
\* as float32, of length 32 + rows*cols*4; sync.py's incremental write_data
\* and asynk.py's buffered write_data produce the same bytes.
C11_FileLayout ==
    prog = "write" =>
        /\ \A s \in {"sync", "asynk"} :
            outputs[s].complete =>
                LET b == outputs[s].bytes
                    flat == RowMajor(argA)
                IN /\ Len(b) = 32 + Len(argA) * Len(argA[1]) * 4
                   /\ \A i \in 1..7 :
                        SubSeq(b, 4 * i - 3, 4 * i) = pack_i(get_header(argB)[i])
                   /\ SubSeq(b, 29, 32) = <<0, 74, 196, 199>>
                   /\ \A n \in 1..Len(flat) : CellBytes(b, n - 1) = pack_f(flat[n])
                   /\ \A k \in 1..Len(b) : b[k] \in 0..255
        /\ pc = "written" => outputs["sync"] = outputs["asynk"]

\* both files of a grid of two rows that differ, with a negative header field
C11_Witness ==
    /\ prog = "write"
    /\ pc = "written"
    /\ Len(argA) = 2
    /\ Len(argA[1]) = 2
    /\ argA[1] # argA[2]
    /\ argA[1][1] # argA[1][2]
    /\ argB = WestSouthProducts
    /\ outputs["sync"].complete

\* round(x) of a float x given in tenths: the nearest integer, a tie going to
\* the even one
RoundOf(tenths) ==
    LET f == tenths \div 10
        r == tenths % 10
    IN IF r < 5 THEN f
       ELSE IF r > 5 THEN f + 1
       ELSE IF f % 2 = 0 THEN f ELSE f + 1

\* C12: for all boundary coordinates and increments get_header yields the
\* seven integers round(lat_first*1e6), round(lat_last*1e6),
\* round(lon_first*1e6), round(lon_last*1e6), round(i_increment*1e6),
\* round(j_increment*1e6), 1, in this order.
C12_HeaderFieldsAreRounded ==
    (prog = "header" /\ pc = "normalized") =>
        computed = [i \in 1..6 |-> RoundOf(argB[i])] \o <<1>>

----------------------------------------------------------------------------
(* Properties of the runs, continued *)

\* C13: if the fetch of the index exhausts its retries the run aborts at
\* once: no caching task is launched, no entry is looked up, fetched, loaded
\* or processed, and no cache file or output file is written.
C13_IndexFailureAbortsAtOnce ==
    (prog \in {"sync", "asynk"} /\ hist.noIndex) =>
        /\ pc = "aborted"
        /\ filenames = <<>>
        /\ task = <<>>
        /\ idx = 0
        /\ prev_values = NoValues
        /\ \A k \in Entries :
            /\ ~hist.net[k] /\ ~hist.hits[k] /\ hist.okFetch[k] = 0
            /\ cache[get_filename(Name(k))] # Absent <=> k \in hist.pre
            /\ outputs[k] = NoFile

\* the index fetch failed in a run of asynk.py over a directory that holds
\* cache files of an earlier run
C13_Witness ==
    /\ prog = "asynk"
    /\ hist.noIndex
    /\ hist.pre # {}
    /\ \A c \in Callers : fr[c] = Idle

\* C14: for every entry list discovery can return, lists with a repeated
\* href or with hrefs that differ in their last four characters included, no
\* cache path is written by two caching tasks and no cache file is written
\* more than once in a run.
C14_CachePathWrittenOnce ==
    prog \in {"sync", "asynk"} => \A k \in Entries : hist.okFetch[k] <= 1

\* C15: in the caching stage of asynk.py the pause of a task after a failed
\* attempt blocks that task only: while a task is in its pause, every other
\* task that waits for its response can take its next step.
C15_PauseBlocksOwnTaskOnly ==
    (prog = "asynk" /\ pc = "caching") =>
        \A t \in DOMAIN task : \A u \in DOMAIN task :
            (task[t] = "sleep" /\ task[u] = "wait") =>
                ENABLED (async_attempt_ok(u) \/ async_attempt_fail(u))

\* C16: entries are processed in catalog order under any pattern of
\* failures.  sync.py: the deque is always the rest of the catalog, an output
\* exists only for dequeued entries and the head, and every dequeued entry
\* after the first has its complete file.  asynk.py: an output exists only
\* for the entries up to the one step i is at, and every finished step i
\* loaded entries i-1 and i and wrote their difference.
C16_CatalogOrder ==
    (prog \in {"sync", "asynk"} /\ pc \notin {"start", "disc_fetch"} /\ ~hist.noIndex) =>
        \A catalog \in {Discovered} :
            LET n == Len(catalog)
                dir(i) == EntryNo(catalog[i])
                at == IF prog = "sync" THEN n - Len(filenames) ELSE idx
                delta(i) == process_delta(CachedFile(catalog[i]).grid,
                                          CachedFile(catalog[i - 1]).grid)
            IN /\ prog = "sync" => filenames = SubSeq(catalog, at + 1, n)
               /\ prog = "asynk" => filenames = catalog
               /\ \A i \in 1..n : outputs[dir(i)] # NoFile => (2 <= i /\ i <= at + 1)
               /\ \A i \in 2..at : outputs[dir(i)].complete
               /\ prog = "asynk" =>
                    \A i \in 2..idx :
                        /\ LoadOk(CachedFile(catalog[i - 1]))
                        /\ LoadOk(CachedFile(catalog[i]))
                        /\ outputs[dir(i)] = Written(delta(i))

\* sync.py has written and dequeued the second of three entries and a write
\* of the third has failed
C16_Witness ==
    /\ prog = "sync"
    /\ pc = "loop"
    /\ Len(Discovered) = 3
    /\ Processed = 2
    /\ outputs[EntryNo(Discovered[2])].complete
    /\ outputs[EntryNo(Discovered[3])] = Partial

\* a step leaves every existing output file alone and leaves no file
\* partially written
OutputStepOk ==
    prog \in {"sync", "asynk"} =>
        \A d \in Entries :
            /\ outputs[d] # NoFile => outputs'[d] = outputs[d]
            /\ outputs'[d] # NoFile => outputs'[d].complete

\* C17: an output file is written once and never revisited: a file that
\* exists is not touched by any later step, and no step leaves a partially
\* written file.
C17_OutputWrittenOnce == [][OutputStepOk]_vars

\* a processing attempt of sync.py after which the head entry is still in
\* the deque has not changed prev_values
FailedAttemptStepOk ==
    (prog = "sync" /\ pc = "try_load" /\ filenames' = filenames) =>
        prev_values' = prev_values

\* C18: in sync.py a processing attempt that fails, the head entry staying
\* in the deque, leaves prev_values as it was before the attempt.
C18_FailedAttemptKeepsBaseline == [][FailedAttemptStepOk]_vars

\* a failing caching attempt changes no cache file and leaves the entry
\* without one
FailedCachingStepOk ==
    prog \in {"sync", "asynk"} =>
        /\ (/\ pc \in {"base_fetch", "try_fetch"}
            /\ fr[0].state = "returned"
            /\ ~DecompressOk(fr[0].content))
               => (cache' = cache /\ NeedsFetch(cache', HeadPath))
        /\ \A t \in DOMAIN task :
               (task[t] \in Pending /\ task'[t] = "failed")
                   => (cache' = cache /\ NeedsFetch(cache', TaskPath(t)))

\* C19: a caching attempt that fails, its fetch exhausted or its content not
\* decompressible, leaves the cache directory as it was, with no file for the
\* entry, so that the next call for the entry fetches again.
C19_FailedCachingCreatesNoFile == [][FailedCachingStepOk]_vars

\* sync.py is back at its loop test after a caching attempt for the head
\* entry that fetched and left no file
C19_Witness ==
    /\ prog = "sync"
    /\ pc = "loop"
    /\ filenames # <<>>
    /\ hist.net[HeadNo]
    /\ cache[HeadPath] = Absent
    /\ hist.okFetch[HeadNo] = 0

====
